---------------------------- MODULE Spec2Model ----------------------------
(***************************************************************************)
(* Tilt Runner: the ball, the physics engine, and the game controller that *)
(* starts, pauses, restarts and stops it.                                  *)
(*                                                                         *)
(* Numbers.  The program computes in IEEE doubles.  Here every length,     *)
(* velocity, force and factor is an integer count of 1/Scale (one          *)
(* thousandth of a pixel, of a pixel per tick, of a unit of force).  A     *)
(* product or quotient is rounded toward zero, once, at the place the      *)
(* source computes it; Math.sqrt is the integer square root.  Intermediate *)
(* values stay below 2^31, which keeps every coordinate difference that is *)
(* squared below 32.767 pixels.                                            *)
(***************************************************************************)
EXTENDS Integers, Sequences, FiniteSets, TLC

(***************************************************************************)
(* Resolution of the fixed-point numbers: 1.0 is Scale.                    *)
(***************************************************************************)
Scale == 10 * 100

Px(n) == n * Scale

(* ---------------- bounds of the model ---------------- *)

\* Display frames (samples of performance.now()) a behaviour may contain.
MaxTime == 1

\* Frame callbacks of PhysicsEngine.update that may be pending at once.
MaxPending == 2

\* Direct calls of Ball methods in a behaviour of SpecBall.
MaxSteps == 2

(* ---------------- arithmetic ---------------- *)

Abs(a) == IF a < 0 THEN -a ELSE a

Max(a, b) == IF a >= b THEN a ELSE b

Min(a, b) == IF a <= b THEN a ELSE b

\* a / b for b > 0, rounded toward zero.
Div(a, b) == IF a >= 0 THEN a \div b ELSE -((-a) \div b)

\* The product of two fixed-point numbers.
Mul(a, b) == Div(a * b, Scale)

RECURSIVE SqrtSearch(_, _, _)
SqrtSearch(n, lo, hi) ==
    IF lo = hi THEN lo
    ELSE LET mid == (lo + hi + 1) \div 2
         IN IF mid * mid <= n THEN SqrtSearch(n, mid, hi)
                              ELSE SqrtSearch(n, lo, mid - 1)

\* Math.sqrt on a square of fixed-point numbers: the largest r with r*r <= n.
Sqrt(n) == SqrtSearch(n, 0, 46340)

(* ---------------- Ball: configuration ---------------- *)

\* Ball.friction, 0.95
friction == 950

\* Ball.bounce, 0.7
bounce == 700

\* Ball.maxSpeed, 8
maxSpeed == 8000

\* Ball.acceleration, 0.3
acceleration == 300

\* The |v| < 0.1 threshold of Ball.update
stopThreshold == 100

\* TiltRunnerGame.config.ballRadius, 12
ballRadius == 12000

\* TiltRunnerGame.config.ballStartX and ballStartY, 50
ballStartX == 50000

ballStartY == 50000

\* The "+ 5" separation margin of Ball.handleObstacleCollision
separationMargin == 5000

\* The 0.8 of Ball.handleObstacleCollision: the rebound speed is 0.8 * maxSpeed
reboundFactor == 800

\* Ball.updateBounds: the bounds of a container of the given size.
updateBounds(b, width, height) ==
    [b EXCEPT !.bounds = [left   |-> b.radius,
                          right  |-> width - b.radius,
                          top    |-> b.radius,
                          bottom |-> height - b.radius]]

\* new Ball(x, y, radius) in a container of the given size.
NewBall(x, y, radius, width, height) ==
    updateBounds([x |-> x, y |-> y, startX |-> x, startY |-> y,
                  radius |-> radius, vx |-> 0, vy |-> 0,
                  bounds |-> [left |-> 0, right |-> 0, top |-> 0, bottom |-> 0],
                  isColliding |-> FALSE],
                 width, height)

\* Ball.getVelocity().speed
Speed(b) == Sqrt(b.vx * b.vx + b.vy * b.vy)

\* A variant of applyForce that limits each component, not the magnitude.
applyForce_perComponent(b, forceX, forceY) ==
    LET vx1 == b.vx + Mul(forceX, acceleration)
        vy1 == b.vy + Mul(forceY, acceleration)
    IN  [b EXCEPT !.vx = Max(-maxSpeed, Min(maxSpeed, vx1)),
                  !.vy = Max(-maxSpeed, Min(maxSpeed, vy1))]

\* A variant of applyForce that limits the force to the nominal range [-1, 1].
applyForce_cappedForce(b, forceX, forceY) ==
    LET vx1   == b.vx + Mul(Max(-Scale, Min(Scale, forceX)), acceleration)
        vy1   == b.vy + Mul(Max(-Scale, Min(Scale, forceY)), acceleration)
        speed == Sqrt(vx1 * vx1 + vy1 * vy1)
    IN  IF speed > maxSpeed
        THEN [b EXCEPT !.vx = Div(vx1 * maxSpeed, speed),
                       !.vy = Div(vy1 * maxSpeed, speed)]
        ELSE [b EXCEPT !.vx = vx1, !.vy = vy1]

\* Ball.applyForce(forceX, forceY)
applyForce(b, forceX, forceY) ==
    LET vx1   == b.vx + Mul(forceX, acceleration)
        vy1   == b.vy + Mul(forceY, acceleration)
        speed == Sqrt(vx1 * vx1 + vy1 * vy1)
    IN  IF speed > maxSpeed
        THEN [b EXCEPT !.vx = Div(vx1 * maxSpeed, speed),
                       !.vy = Div(vy1 * maxSpeed, speed)]
        ELSE [b EXCEPT !.vx = vx1, !.vy = vy1]

\* A variant of checkBoundaryCollisions that reverses the velocity at the right
\* and bottom edges without moving the ball back onto them.
checkBoundaryCollisions_noClamp(b) ==
    LET cL == b.x < b.bounds.left
        b1 == IF cL THEN [b EXCEPT !.x = b.bounds.left, !.vx = -Mul(b.vx, bounce)]
                    ELSE b
        cR == b1.x > b1.bounds.right
        b2 == IF cR THEN [b1 EXCEPT !.vx = -Mul(b1.vx, bounce)] ELSE b1
        cT == b2.y < b2.bounds.top
        b3 == IF cT THEN [b2 EXCEPT !.y = b2.bounds.top, !.vy = -Mul(b2.vy, bounce)]
                    ELSE b2
        cB == b3.y > b3.bounds.bottom
        b4 == IF cB THEN [b3 EXCEPT !.vy = -Mul(b3.vy, bounce)] ELSE b3
        collided == cL \/ cR \/ cT \/ cB
    IN  [b |-> [b4 EXCEPT !.isColliding = collided],
         onCollision |-> IF collided /\ ~b.isColliding THEN 1 ELSE 0]

\* A variant of checkBoundaryCollisions that calls onCollision in every update
\* with an edge violated.
checkBoundaryCollisions_everyUpdate(b) ==
    LET cL == b.x < b.bounds.left
        b1 == IF cL THEN [b EXCEPT !.x = b.bounds.left, !.vx = -Mul(b.vx, bounce)]
                    ELSE b
        cR == b1.x > b1.bounds.right
        b2 == IF cR THEN [b1 EXCEPT !.x = b1.bounds.right, !.vx = -Mul(b1.vx, bounce)]
                    ELSE b1
        cT == b2.y < b2.bounds.top
        b3 == IF cT THEN [b2 EXCEPT !.y = b2.bounds.top, !.vy = -Mul(b2.vy, bounce)]
                    ELSE b2
        cB == b3.y > b3.bounds.bottom
        b4 == IF cB THEN [b3 EXCEPT !.y = b3.bounds.bottom, !.vy = -Mul(b3.vy, bounce)]
                    ELSE b3
        collided == cL \/ cR \/ cT \/ cB
    IN  [b |-> [b4 EXCEPT !.isColliding = collided],
         onCollision |-> IF collided THEN 1 ELSE 0]

\* A variant of checkBoundaryCollisions that reverses the velocity at an edge
\* without scaling it by bounce.
checkBoundaryCollisions_noBounce(b) ==
    LET cL == b.x < b.bounds.left
        b1 == IF cL THEN [b EXCEPT !.x = b.bounds.left, !.vx = -b.vx] ELSE b
        cR == b1.x > b1.bounds.right
        b2 == IF cR THEN [b1 EXCEPT !.x = b1.bounds.right, !.vx = -b1.vx] ELSE b1
        cT == b2.y < b2.bounds.top
        b3 == IF cT THEN [b2 EXCEPT !.y = b2.bounds.top, !.vy = -b2.vy] ELSE b2
        cB == b3.y > b3.bounds.bottom
        b4 == IF cB THEN [b3 EXCEPT !.y = b3.bounds.bottom, !.vy = -b3.vy] ELSE b3
        collided == cL \/ cR \/ cT \/ cB
    IN  [b |-> [b4 EXCEPT !.isColliding = collided],
         onCollision |-> IF collided /\ ~b.isColliding THEN 1 ELSE 0]

\* Ball.checkBoundaryCollisions(): the ball, and how often onCollision ran.
checkBoundaryCollisions(b) ==
    LET cL == b.x < b.bounds.left
        b1 == IF cL THEN [b EXCEPT !.x = b.bounds.left, !.vx = -Mul(b.vx, bounce)]
                    ELSE b
        cR == b1.x > b1.bounds.right
        b2 == IF cR THEN [b1 EXCEPT !.x = b1.bounds.right, !.vx = -Mul(b1.vx, bounce)]
                    ELSE b1
        cT == b2.y < b2.bounds.top
        b3 == IF cT THEN [b2 EXCEPT !.y = b2.bounds.top, !.vy = -Mul(b2.vy, bounce)]
                    ELSE b2
        cB == b3.y > b3.bounds.bottom
        b4 == IF cB THEN [b3 EXCEPT !.y = b3.bounds.bottom, !.vy = -Mul(b3.vy, bounce)]
                    ELSE b3
        collided == cL \/ cR \/ cT \/ cB
    IN  [b |-> [b4 EXCEPT !.isColliding = collided],
         onCollision |-> IF collided /\ ~b.isColliding THEN 1 ELSE 0]

\* A variant of microZero that stops nothing.
microZero_never(b) == b

\* The last two statements of Ball.update(): a slow component stops.
microZero(b) ==
    [b EXCEPT !.vx = IF Abs(b.vx) < stopThreshold THEN 0 ELSE b.vx,
              !.vy = IF Abs(b.vy) < stopThreshold THEN 0 ELSE b.vy]

\* A variant of integrate that moves the ball by the velocity it had before
\* friction.
integrate_beforeFriction(b) ==
    [b EXCEPT !.x = b.x + b.vx, !.y = b.y + b.vy,
              !.vx = Mul(b.vx, friction), !.vy = Mul(b.vy, friction)]

\* The first four statements of Ball.update(): friction, then integration.
integrate(b) ==
    LET f == [b EXCEPT !.vx = Mul(b.vx, friction), !.vy = Mul(b.vy, friction)]
    IN  [f EXCEPT !.x = f.x + f.vx, !.y = f.y + f.vy]

\* Ball.update(): friction, integration, boundary check, micro-zero.
Ball_update(b) ==
    LET c == checkBoundaryCollisions(integrate(b))
    IN  [b |-> microZero(c.b), onCollision |-> c.onCollision]

\* A variant of checkObstacleCollision whose comparison is not strict.
checkObstacleCollision_nonStrict(b, obstacle) ==
    LET dx == b.x - Max(obstacle.x, Min(b.x, obstacle.x + obstacle.width))
        dy == b.y - Max(obstacle.y, Min(b.y, obstacle.y + obstacle.height))
    IN  /\ Abs(dx) <= b.radius
        /\ Abs(dy) <= b.radius
        /\ dx * dx + dy * dy <= b.radius * b.radius

\* Ball.checkObstacleCollision(obstacle).  dx*dx + dy*dy < radius*radius needs
\* |dx| < radius and |dy| < radius, which keeps the squares in range.
checkObstacleCollision(b, obstacle) ==
    LET dx == b.x - Max(obstacle.x, Min(b.x, obstacle.x + obstacle.width))
        dy == b.y - Max(obstacle.y, Min(b.y, obstacle.y + obstacle.height))
    IN  /\ Abs(dx) < b.radius
        /\ Abs(dy) < b.radius
        /\ dx * dx + dy * dy < b.radius * b.radius

\* A variant of checkGoalCollision whose comparison is not strict.
checkGoalCollision_nonStrict(b, goal) ==
    LET dx == b.x - goal.x
        dy == b.y - goal.y
        R  == b.radius + goal.radius
    IN  /\ Abs(dx) <= R
        /\ Abs(dy) <= R
        /\ Sqrt(dx * dx + dy * dy) <= R

\* Ball.checkGoalCollision(goal).  sqrt(d2) < R is d2 < R*R for R >= 0, and
\* needs |dx| < R and |dy| < R.
checkGoalCollision(b, goal) ==
    LET dx == b.x - goal.x
        dy == b.y - goal.y
        R  == b.radius + goal.radius
    IN  /\ Abs(dx) < R
        /\ Abs(dy) < R
        /\ Sqrt(dx * dx + dy * dy) < R

\* A variant of handleObstacleCollision that pushes the ball to the right when its
\* center is the obstacle's.
handleObstacleCollision_defaultNormal(b, obstacle) ==
    LET centerX  == obstacle.x + Div(obstacle.width, 2)
        centerY  == obstacle.y + Div(obstacle.height, 2)
        dx       == b.x - centerX
        dy       == b.y - centerY
        distance == Sqrt(dx * dx + dy * dy)
        reach    == b.radius + Div(Max(obstacle.width, obstacle.height), 2)
                             + separationMargin
    IN  IF distance > 0
        THEN [b EXCEPT !.vx = Div(dx * Mul(maxSpeed, reboundFactor), distance),
                       !.vy = Div(dy * Mul(maxSpeed, reboundFactor), distance),
                       !.x  = centerX + Div(dx * reach, distance),
                       !.y  = centerY + Div(dy * reach, distance)]
        ELSE [b EXCEPT !.vx = Mul(maxSpeed, reboundFactor), !.vy = 0,
                       !.x  = centerX + reach]

\* A variant of handleObstacleCollision whose rebound is 1.2 * maxSpeed.
handleObstacleCollision_overspeed(b, obstacle) ==
    LET centerX  == obstacle.x + Div(obstacle.width, 2)
        centerY  == obstacle.y + Div(obstacle.height, 2)
        dx       == b.x - centerX
        dy       == b.y - centerY
        distance == Sqrt(dx * dx + dy * dy)
        reach    == b.radius + Div(Max(obstacle.width, obstacle.height), 2)
                             + separationMargin
        rebound  == Mul(maxSpeed, 2 * Scale - reboundFactor)
    IN  IF distance > 0
        THEN [b EXCEPT !.vx = Div(dx * rebound, distance),
                       !.vy = Div(dy * rebound, distance),
                       !.x  = centerX + Div(dx * reach, distance),
                       !.y  = centerY + Div(dy * reach, distance)]
        ELSE b

\* Ball.handleObstacleCollision(obstacle), without its call of onCollision.
handleObstacleCollision(b, obstacle) ==
    LET centerX  == obstacle.x + Div(obstacle.width, 2)
        centerY  == obstacle.y + Div(obstacle.height, 2)
        dx       == b.x - centerX
        dy       == b.y - centerY
        distance == Sqrt(dx * dx + dy * dy)
        reach    == b.radius + Div(Max(obstacle.width, obstacle.height), 2)
                             + separationMargin
    IN  IF distance > 0
        THEN [b EXCEPT !.vx = Div(dx * Mul(maxSpeed, reboundFactor), distance),
                       !.vy = Div(dy * Mul(maxSpeed, reboundFactor), distance),
                       !.x  = centerX + Div(dx * reach, distance),
                       !.y  = centerY + Div(dy * reach, distance)]
        ELSE b

\* A variant of Ball.reset() that puts the ball back without stopping it.
Ball_reset_keepVelocity(b) ==
    [b EXCEPT !.x = b.startX, !.y = b.startY, !.isColliding = FALSE]

\* Ball.reset()
Ball_reset(b) ==
    [b EXCEPT !.x = b.startX, !.y = b.startY, !.vx = 0, !.vy = 0,
              !.isColliding = FALSE]

(* ---------------- the environment: the DOM and the clock ---------------- *)

\* Math.sin(time * moveSpeed) at the sampled instants: time * moveSpeed = j * pi/2.
SinTable == <<0, 1000, 0, -1000>>

\* Math.cos(time * moveSpeed * 0.7) at the same instants (period 40).
CosTable ==
    <<1000, 454, -588, -988, -309, 707, 951, 156, -809, -891,
      0, 891, 809, -156, -951, -707, 309, 988, 588, -454,
      -1000, -454, 588, 988, 309, -707, -951, -156, 809, 891,
      0, -891, -809, 156, 951, 707, -309, -988, -588, 454>>

sin(j) == SinTable[(j % 4) + 1]

cos07(j) == CosTable[(j % 40) + 1]

\* An element with class "obstacle": its place in the normal flow, relative to the
\* game container, its size, and the style.left / style.top written to it
\* (.obstacle is position: relative, so these shift its rectangle).
ObstacleElement(left, top, width, height) ==
    [left |-> Px(left), top |-> Px(top), width |-> Px(width), height |-> Px(height),
     styleLeft |-> 0, styleTop |-> 0]

\* The element with id "goal", when the document has one.
GoalElement(left, top, size) ==
    [present |-> TRUE, left |-> Px(left), top |-> Px(top), width |-> Px(size),
     height |-> Px(size)]

NoGoalElement ==
    [present |-> FALSE, left |-> 0, top |-> 0, width |-> 0, height |-> 0]

\* The documents the program is run in: whether the user agent is a mobile one,
\* the size of the game container, the obstacle elements and the goal element.
Layouts ==
    { [mobile |-> FALSE, width |-> Px(80), height |-> Px(80),
       obst |-> <<ObstacleElement(12, 25, 40, 40), ObstacleElement(30, 22, 20, 20)>>,
       goal |-> GoalElement(62, 20, 12), resizes |-> 0],
      [mobile |-> TRUE, width |-> Px(120), height |-> Px(90),
       obst |-> <<>>,
       goal |-> NoGoalElement, resizes |-> 0] }

\* What the document becomes before a resize is handled: the new size of the game
\* container, whether the obstacle elements and the goal element are still in
\* it, and where the new layout puts the goal element.  The one document here is
\* smaller and has lost its goal element.
Relayouts ==
    { [width |-> Px(60), height |-> Px(60), keepObstacles |-> TRUE,
       keepGoal |-> FALSE, goalLeft |-> 0] }

\* The document after the change D.
Relayout(e, D) ==
    [e EXCEPT !.width = D.width, !.height = D.height,
              !.obst = IF D.keepObstacles THEN @ ELSE <<>>,
              !.goal = IF ~D.keepGoal THEN NoGoalElement
                       ELSE IF @.present THEN [@ EXCEPT !.left = D.goalLeft] ELSE @,
              !.resizes = @ + 1]

\* The values Math.random() gives the motion of one obstacle a build:
\* moveSpeed in [1, 3), moveRadius in [10, 30).
MoveDraws ==
    { [moveSpeed |-> 1, moveRadius |-> Px(10)],
      [moveSpeed |-> 2, moveRadius |-> Px(20)] }

\* The values Math.random() gives the obstacles rebuilt by a resize.
ResizeDraws == { [moveSpeed |-> 2, moveRadius |-> Px(20)] }

\* The forces ControlsManager hands to applyForces: tilt times sensitivity.mobile
\* (0.8), with the device tilted; key directions times sensitivity.desktop (1.0),
\* with the right and up keys held.
ForceInputs(mobile) ==
    IF mobile THEN { <<-800, 800>> }
              ELSE { <<1000, -1000>> }

(* ---------------- PhysicsEngine ---------------- *)

\* The record of the steps of a tick, in the order they ran (read by no operation).
Logged(S, step, i) == [S EXCEPT !.h.order = Append(@, [step |-> step, i |-> i])]

\* PhysicsEngine.sensitivity.mobile, 0.5
sensitivityMobile == 500

\* PhysicsEngine.sensitivity.desktop, 0.3
sensitivityDesktop == 300

\* The 45 degrees of PhysicsEngine.updateGravity, in thousandths of a degree
maxTilt == 45000

\* PhysicsEngine.updateObstacles(): the list is rebuilt from the elements.
updateObstacles(S, draws) ==
    [S EXCEPT !.p.obstacles =
        [i \in 1..Len(S.e.obst) |->
            LET el == S.e.obst[i]
                relativeX == el.left + el.styleLeft
                relativeY == el.top + el.styleTop
            IN  [element |-> i, x |-> relativeX, y |-> relativeY,
                 width |-> el.width, height |-> el.height,
                 originalX |-> relativeX, originalY |-> relativeY,
                 moveSpeed |-> draws[i].moveSpeed,
                 moveRadius |-> draws[i].moveRadius]]]

\* PhysicsEngine.updateGoal(): without a goal element the goal is left as it is.
updateGoal(S) ==
    IF ~S.e.goal.present THEN S
    ELSE [S EXCEPT !.p.goal =
            [present |-> TRUE,
             x |-> S.e.goal.left + Div(S.e.goal.width, 2),
             y |-> S.e.goal.top + Div(S.e.goal.height, 2),
             radius |-> Div(S.e.goal.width, 2)]]

\* A variant of updateGravity that does not clamp the angles.
updateGravity_unclamped(S, beta, gamma) ==
    LET normalizedBeta  == Div(beta * Scale, maxTilt)
        normalizedGamma == Div(gamma * Scale, maxTilt)
        sensitivity     == IF S.e.mobile THEN sensitivityMobile ELSE sensitivityDesktop
    IN  [S EXCEPT !.p.gravity = [x |-> Mul(normalizedGamma, sensitivity),
                                 y |-> Mul(normalizedBeta, sensitivity)]]

\* PhysicsEngine.updateGravity(beta, gamma), angles in thousandths of a degree.
updateGravity(S, beta, gamma) ==
    LET normalizedBeta  == Div(Max(-maxTilt, Min(maxTilt, beta)) * Scale, maxTilt)
        normalizedGamma == Div(Max(-maxTilt, Min(maxTilt, gamma)) * Scale, maxTilt)
        sensitivity     == IF S.e.mobile THEN sensitivityMobile ELSE sensitivityDesktop
    IN  [S EXCEPT !.p.gravity = [x |-> Mul(normalizedGamma, sensitivity),
                                 y |-> Mul(normalizedBeta, sensitivity)]]

\* A variant of updateMovingObstacles that adds the offsets to the position the
\* obstacle has, not to its original origin.
updateMovingObstacles_accumulating(S) ==
    LET moved(o) ==
            LET j == S.q.now * o.moveSpeed
                offsetX == Mul(sin(j), o.moveRadius)
                offsetY == Div(Mul(cos07(j), o.moveRadius), 2)
            IN  [o EXCEPT !.x = o.x + offsetX, !.y = o.y + offsetY]
        obstacles == [i \in 1..Len(S.p.obstacles) |-> moved(S.p.obstacles[i])]
    IN  Logged([S EXCEPT !.p.obstacles = obstacles,
                  !.e.obst = [i \in 1..Len(S.e.obst) |->
                                IF \E k \in 1..Len(obstacles) : obstacles[k].element = i
                                THEN LET k == CHOOSE k \in 1..Len(obstacles) :
                                                  obstacles[k].element = i
                                     IN  [S.e.obst[i] EXCEPT
                                            !.styleLeft = obstacles[k].x,
                                            !.styleTop = obstacles[k].y]
                                ELSE S.e.obst[i]]], "updateMovingObstacles", 0)

\* PhysicsEngine.updateMovingObstacles() at the clock's current sample.
updateMovingObstacles(S) ==
    LET moved(o) ==
            LET j == S.q.now * o.moveSpeed
                offsetX == Mul(sin(j), o.moveRadius)
                offsetY == Div(Mul(cos07(j), o.moveRadius), 2)
            IN  [o EXCEPT !.x = o.originalX + offsetX, !.y = o.originalY + offsetY]
        obstacles == [i \in 1..Len(S.p.obstacles) |-> moved(S.p.obstacles[i])]
    IN  Logged([S EXCEPT !.p.obstacles = obstacles,
                  !.e.obst = [i \in 1..Len(S.e.obst) |->
                                IF \E k \in 1..Len(obstacles) : obstacles[k].element = i
                                THEN LET k == CHOOSE k \in 1..Len(obstacles) :
                                                  obstacles[k].element = i
                                     IN  [S.e.obst[i] EXCEPT
                                            !.styleLeft = obstacles[k].x,
                                            !.styleTop = obstacles[k].y]
                                ELSE S.e.obst[i]]], "updateMovingObstacles", 0)

\* PhysicsEngine.stop().  Every frame callback pending now was scheduled before
\* this stop(): the callback's "stale" mark records that, and nothing reads it.
Phys_stop(S) ==
    [S EXCEPT !.p.isRunning = FALSE,
              !.q.pending = [k \in 1..Len(S.q.pending) |-> [stale |-> TRUE]]]

\* The key codes ControlsManager.keys has a flag for.
KeyCodes ==
    {"ArrowUp", "ArrowDown", "ArrowLeft", "ArrowRight", "KeyW", "KeyS", "KeyA", "KeyD"}

NoKeys == [k \in KeyCodes |-> FALSE]

\* ControlsManager.sensitivity.mobile, 0.8
controlsSensitivityMobile == 800

\* ControlsManager.sensitivity.desktop, 1.0
controlsSensitivityDesktop == 1000

\* The upper limit 2 of ControlsManager.setSensitivity
maxSensitivity == 2000

\* new ControlsManager() on a device whose detectMobile() and orientation
\* permission are as given.
NewControls(isMobile, hasOrientationPermission) ==
    [isEnabled |-> FALSE,
     isMobile |-> isMobile,
     hasOrientationPermission |-> hasOrientationPermission,
     sensitivity |-> [mobile |-> controlsSensitivityMobile,
                      desktop |-> controlsSensitivityDesktop],
     keys |-> NoKeys,
     orientation |-> [beta |-> 0, gamma |-> 0],
     calibration |-> [beta |-> 0, gamma |-> 0, isCalibrated |-> FALSE]]

\* A variant of disable() that leaves the key flags as they are.
Ctl_disable_keepKeys(S) == [S EXCEPT !.c.isEnabled = FALSE]

\* ControlsManager.disable()
Ctl_disable(S) == [S EXCEPT !.c.isEnabled = FALSE, !.c.keys = NoKeys]

\* ControlsManager.enable()
Ctl_enable(S) == [S EXCEPT !.c.isEnabled = TRUE]

\* UIManager.transitionToScreen(screenName): currentScreen changes when the
\* 250 ms timer fires.  A timer requested while the last pending timer is for
\* the same screen is kept as one with it: when the second fires, currentScreen
\* has that value already.
transitionToScreen(S, screenName) ==
    IF S.u.transitions # <<>> /\ S.u.transitions[Len(S.u.transitions)] = screenName
    THEN S
    ELSE [S EXCEPT !.u.transitions = Append(@, screenName)]

\* UIManager.startTimer(): a new interval; the handle of an interval still running
\* is overwritten, and that interval is never cleared.  The count of seconds
\* (gameTimer.remaining) is not kept: see TimeUp.
startTimer(S) ==
    [S EXCEPT !.u.leakedInterval = @ \/ S.u.timerInterval,
              !.u.timerInterval = TRUE]

\* UIManager.stopTimer(): clears the interval whose handle is stored.
stopTimer(S) == [S EXCEPT !.u.timerInterval = FALSE]

\* UIManager.handleVictory()
UI_handleVictory(S) == transitionToScreen(stopTimer(S), "victory")

\* A variant of handleGoalReached that leaves the engine running.
handleGoalReached_noStop(S) ==
    UI_handleVictory(Ctl_disable([S EXCEPT !.g.gameState = "victory"]))

\* TiltRunnerGame.handleGoalReached(), the listener of 'goalReached'
handleGoalReached(S) ==
    UI_handleVictory(Ctl_disable(Phys_stop([S EXCEPT !.g.gameState = "victory"])))

\* PhysicsEngine.onGoalReached(): dispatches 'goalReached', whose listener runs
\* before dispatchEvent returns.
onGoalReached(S) ==
    handleGoalReached([S EXCEPT !.h.goalEvents = @ + 1,
                                !.h.goalSinceStart = @ + 1,
                                !.h.goalStopped = TRUE])

\* A variant of onObstacleHit that is edge-triggered: no event for an obstacle
\* that was already hit in the tick before.
onObstacleHit_edgeTriggered(S, i) ==
    IF i \in DOMAIN S.h.prevTested /\ S.h.prevTested[i]
    THEN S
    ELSE [S EXCEPT !.h.hits[i] = @ + 1, !.h.obstacleEvents = @ + 1]

\* PhysicsEngine.onObstacleHit(obstacle): dispatches 'obstacleHit'; its listener
\* (TiltRunnerGame.handleObstacleHit) only draws an effect.
onObstacleHit(S, i) ==
    [S EXCEPT !.h.hits[i] = @ + 1, !.h.obstacleEvents = @ + 1]

\* The obstacle loop of PhysicsEngine.checkCollisions(), from obstacle i on.
RECURSIVE checkObstacles(_, _)
checkObstacles(S, i) ==
    IF i > Len(S.p.obstacles) THEN S
    ELSE LET obstacle == S.p.obstacles[i]
             hit == checkObstacleCollision(S.b, obstacle)
             S1  == Logged([S EXCEPT !.h.tested[i] = hit], "checkObstacleCollision", i)
         IN  checkObstacles(
                IF hit
                THEN onObstacleHit(
                        [S1 EXCEPT !.b = handleObstacleCollision(S1.b, obstacle)], i)
                ELSE S1,
                i + 1)

\* The goal test of PhysicsEngine.checkCollisions()
checkGoal(S) ==
    LET T == [Logged(S, "goal", 0) EXCEPT !.h.goalTestAt = [x |-> S.b.x, y |-> S.b.y]]
    IN  IF T.p.goal.present /\ checkGoalCollision(T.b, T.p.goal)
        THEN onGoalReached(T)
        ELSE T

\* A variant of checkCollisions that tests the goal before the obstacles.
checkCollisions_goalFirst(S) ==
    LET n  == Len(S.p.obstacles)
        S0 == [S EXCEPT !.h.prevTested = S.h.tested,
                        !.h.preHit = [i \in 1..n |->
                                        checkObstacleCollision(S.b, S.p.obstacles[i])],
                        !.h.tested = [i \in 1..n |-> FALSE],
                        !.h.hits = [i \in 1..n |-> 0]]
    IN  checkObstacles(checkGoal(S0), 1)

\* PhysicsEngine.checkCollisions()
checkCollisions(S) ==
    LET n  == Len(S.p.obstacles)
        S0 == [S EXCEPT !.h.prevTested = S.h.tested,
                        !.h.preHit = [i \in 1..n |->
                                        checkObstacleCollision(S.b, S.p.obstacles[i])],
                        !.h.tested = [i \in 1..n |-> FALSE],
                        !.h.hits = [i \in 1..n |-> 0]]
    IN  checkGoal(checkObstacles(S0, 1))

InBounds(b) ==
    /\ b.bounds.left <= b.x /\ b.x <= b.bounds.right
    /\ b.bounds.top <= b.y /\ b.y <= b.bounds.bottom

\* The ball part of a tick: gravity, Ball.update(), collisions.
tickBall(S) ==
    LET forced  == Logged([S EXCEPT !.b = applyForce(S.b, S.p.gravity.x, S.p.gravity.y)],
                          "applyForce", 0)
        updated == Logged([forced EXCEPT !.b = Ball_update(forced.b).b], "update", 0)
    IN  checkCollisions(updated)

\* requestAnimationFrame(() => this.update())
requestFrame(S) == [S EXCEPT !.q.pending = Append(@, [stale |-> FALSE])]

\* A variant of update without the isRunning test.
Phys_update_unguarded(S, stale) ==
    LET T == tickBall(updateMovingObstacles([S EXCEPT !.h.order = <<>>]))
    IN  requestFrame([T EXCEPT !.h.ticks = @ + 1,
                               !.h.staleTicks = @ + (IF stale THEN 1 ELSE 0),
                               !.h.escaped = @ + (IF InBounds(T.b) THEN 0 ELSE 1)])

\* PhysicsEngine.update(), called by start() or as a frame callback; "stale"
\* says whether stop() was called after the callback was scheduled.
Phys_update(S, stale) ==
    IF ~S.p.isRunning
    THEN [S EXCEPT !.h.dead = @ + 1]
    ELSE LET T == tickBall(updateMovingObstacles([S EXCEPT !.h.order = <<>>]))
         IN  requestFrame([T EXCEPT !.h.ticks = @ + 1,
                                    !.h.staleTicks = @ + (IF stale THEN 1 ELSE 0),
                                    !.h.escaped = @ + (IF InBounds(T.b) THEN 0 ELSE 1)])

\* PhysicsEngine.start()
Phys_start(S) ==
    Phys_update([S EXCEPT !.p.isRunning = TRUE,
                          !.h.goalSinceStart = 0,
                          !.h.goalStopped = FALSE], FALSE)

\* A variant of PhysicsEngine.reset() that also stops the loop.
Phys_reset_stopping(S) ==
    LET obstacles == [i \in 1..Len(S.p.obstacles) |->
                        [S.p.obstacles[i] EXCEPT !.x = S.p.obstacles[i].originalX,
                                                 !.y = S.p.obstacles[i].originalY]]
    IN  [S EXCEPT !.p.obstacles = obstacles,
                  !.p.isRunning = FALSE,
                  !.b = Ball_reset(S.b),
                  !.p.gravity = [x |-> 0, y |-> 0]]

\* PhysicsEngine.reset()
Phys_reset(S) ==
    LET obstacles == [i \in 1..Len(S.p.obstacles) |->
                        [S.p.obstacles[i] EXCEPT !.x = S.p.obstacles[i].originalX,
                                                 !.y = S.p.obstacles[i].originalY]]
    IN  [S EXCEPT !.p.obstacles = obstacles,
                  !.e.obst = [i \in 1..Len(S.e.obst) |->
                                IF \E k \in 1..Len(obstacles) : obstacles[k].element = i
                                THEN LET k == CHOOSE k \in 1..Len(obstacles) :
                                                  obstacles[k].element = i
                                     IN  [S.e.obst[i] EXCEPT
                                            !.styleLeft = obstacles[k].x,
                                            !.styleTop = obstacles[k].y]
                                ELSE S.e.obst[i]],
                  !.b = Ball_reset(S.b),
                  !.p.gravity = [x |-> 0, y |-> 0]]

\* A variant of PhysicsEngine.resize() that also puts the ball back to its start.
Phys_resize_resetting(S, draws) ==
    updateGoal(updateObstacles(
        [S EXCEPT !.b = Ball_reset(updateBounds(S.b, S.e.width, S.e.height))], draws))

\* PhysicsEngine.resize(); draws are the values of Math.random() in updateObstacles.
Phys_resize(S, draws) ==
    updateGoal(updateObstacles(
        [S EXCEPT !.b = updateBounds(S.b, S.e.width, S.e.height)], draws))

(* ---------------- TiltRunnerGame and UIManager ---------------- *)

\* TiltRunnerGame.handleResize()
handleResize(S, draws) ==
    LET T == Phys_resize(S, draws)
    IN  [T EXCEPT !.b = updateBounds(T.b, T.e.width, T.e.height),
                  !.h.resized = TRUE]


\* What a call of PhysicsEngine.reset() saw and left: ball, engine, scheduler
\* and document.
Snapshot(S) == [b |-> S.b, p |-> S.p, q |-> S.q, e |-> S.e]

\* TiltRunnerGame.resetGame()
resetGame(S) ==
    LET R == Phys_reset(S)
    IN  [R EXCEPT !.h.resetLog =
                    Append(@, [pre |-> Snapshot(S), post |-> Snapshot(R)])]

\* TiltRunnerGame.startGame()
Game_startGame(S) ==
    Phys_start(Ctl_enable(resetGame([S EXCEPT !.g.gameState = "playing"])))

\* TiltRunnerGame.pauseGame()
pauseGame(S) == Phys_stop(Ctl_disable([S EXCEPT !.g.gameState = "paused"]))

\* TiltRunnerGame.resumeGame()
resumeGame(S) == Phys_start(Ctl_enable([S EXCEPT !.g.gameState = "playing"]))

\* TiltRunnerGame.restartGame()
Game_restartGame(S) == Game_startGame(resetGame(Ctl_disable(Phys_stop(S))))

\* UIManager.startGame()
UI_startGame(S) ==
    Game_startGame([startTimer(transitionToScreen(S, "game")) EXCEPT
                        !.u.isPaused = FALSE])

\* UIManager.restartGame()
UI_restartGame(S) == Game_restartGame(UI_startGame(S))

\* UIManager.togglePause()
togglePause(S) ==
    IF ~S.u.isPaused
    THEN pauseGame([S EXCEPT !.u.isPaused = TRUE])
    ELSE resumeGame([S EXCEPT !.u.isPaused = FALSE])

\* UIManager.showStartScreen()
showStartScreen(S) == stopTimer(transitionToScreen(S, "start"))

\* A variant of gameOver that leaves the controls enabled.
gameOver_noDisable(S) == Phys_stop([S EXCEPT !.g.gameState = "gameOver"])

\* TiltRunnerGame.gameOver(), the onTimeUp callback
gameOver(S) == Ctl_disable(Phys_stop([S EXCEPT !.g.gameState = "gameOver"]))

\* The interval callback of startTimer when the time is up: stopTimer(),
\* showGameOverScreen(), onTimeUp().
onTimeUp(S) == gameOver(transitionToScreen(stopTimer(S), "gameOver"))

\* ControlsManager.applyForces(forceX, forceY)
applyForces(S, forceX, forceY) ==
    updateGravity(S, Mul(forceY, maxTilt), Mul(forceX, maxTilt))

(* ---------------- ControlsManager ---------------- *)

\* The listener of 'keydown' of initializeDesktopControls
keydown(S, code) ==
    IF ~S.c.isEnabled THEN S ELSE [S EXCEPT !.c.keys[code] = TRUE]

\* The listener of 'keyup' of initializeDesktopControls
keyup(S, code) == [S EXCEPT !.c.keys[code] = FALSE]

\* A variant of keyDirection that counts the keys held, not the directions.
keyDirection_additive(keys) ==
    LET n(code) == IF keys[code] THEN Scale ELSE 0
    IN  [x |-> n("ArrowRight") + n("KeyD") - n("ArrowLeft") - n("KeyA"),
         y |-> n("ArrowDown") + n("KeyS") - n("ArrowUp") - n("KeyW")]

\* The force of updateKeyboard before the sensitivity is applied.
keyDirection(keys) ==
    LET x1 == IF keys["ArrowLeft"] \/ keys["KeyA"] THEN -Scale ELSE 0
        x2 == IF keys["ArrowRight"] \/ keys["KeyD"] THEN x1 + Scale ELSE x1
        y1 == IF keys["ArrowUp"] \/ keys["KeyW"] THEN -Scale ELSE 0
        y2 == IF keys["ArrowDown"] \/ keys["KeyS"] THEN y1 + Scale ELSE y1
    IN  [x |-> x2, y |-> y2]

\* The force updateKeyboard hands to applyForces.
keyboardForce(c) ==
    LET d == keyDirection(c.keys)
    IN  [x |-> Mul(d.x, c.sensitivity.desktop), y |-> Mul(d.y, c.sensitivity.desktop)]

\* A variant of updateKeyboard without the test of isEnabled.
updateKeyboard_whileDisabled(S) ==
    LET f == keyboardForce(S.c) IN applyForces(S, f.x, f.y)

\* updateKeyboard, the frame callback of startKeyboardLoop
updateKeyboard(S) ==
    IF ~S.c.isEnabled THEN S
    ELSE LET f == keyboardForce(S.c) IN applyForces(S, f.x, f.y)

\* ControlsManager.normalizeOrientation(value, maxAngle)
normalizeOrientation(value, maxAngle) ==
    Max(-Scale, Min(Scale, Div(value * Scale, maxAngle)))

\* The force the listener of 'deviceorientation' hands to applyForces, from the
\* orientation it has stored.
orientationForce(c) ==
    LET adjustedBeta  == c.orientation.beta - c.calibration.beta
        adjustedGamma == c.orientation.gamma - c.calibration.gamma
    IN  [x |-> Mul(normalizeOrientation(adjustedGamma, maxTilt), c.sensitivity.mobile),
         y |-> Mul(normalizeOrientation(adjustedBeta, maxTilt), c.sensitivity.mobile)]

\* The listener of 'deviceorientation' of setupOrientationListener
deviceorientation(S, beta, gamma) ==
    IF ~S.c.isEnabled THEN S
    ELSE LET T == [S EXCEPT !.c.orientation = [beta |-> beta, gamma |-> gamma]]
             f == orientationForce(T.c)
         IN  applyForces(T, f.x, f.y)

\* A variant of calibrate that also hands the force of the calibrated position,
\* (0, 0), to the engine.
calibrate_applying(S) ==
    IF S.c.isMobile /\ S.c.hasOrientationPermission
    THEN applyForces([S EXCEPT !.c.calibration = [beta |-> S.c.orientation.beta,
                                                  gamma |-> S.c.orientation.gamma,
                                                  isCalibrated |-> TRUE]], 0, 0)
    ELSE S

\* ControlsManager.calibrate()
calibrate(S) ==
    IF S.c.isMobile /\ S.c.hasOrientationPermission
    THEN [S EXCEPT !.c.calibration = [beta |-> S.c.orientation.beta,
                                      gamma |-> S.c.orientation.gamma,
                                      isCalibrated |-> TRUE]]
    ELSE S

\* ControlsManager.setSensitivity(mobileSensitivity, desktopSensitivity)
setSensitivity(S, mobileSensitivity, desktopSensitivity) ==
    [S EXCEPT !.c.sensitivity =
        [mobile  |-> Max(0, Min(maxSensitivity, mobileSensitivity)),
         desktop |-> Max(0, Min(maxSensitivity, desktopSensitivity))]]

(* ---------------- state ---------------- *)

VARIABLES
    ball,    \* the Ball
    phys,    \* the PhysicsEngine: gravity, obstacles, goal, isRunning
    sched,   \* the clock sample "now" and the pending frame callbacks
    game,    \* TiltRunnerGame.gameState
    ctl,     \* ControlsManager.isEnabled
    ui,      \* UIManager: currentScreen, isPaused, the pending 250 ms timers
    env,     \* the document: user agent, container, obstacle and goal elements
    hist,    \* what the last action and the last tick did (read by no operation)
    probe    \* SpecBall: the last direct call of a Ball method and its input

vars == <<ball, phys, sched, game, ctl, ui, env, hist, probe>>

\* The program state as one value, for the operations above.
State ==
    [b |-> ball, p |-> phys, q |-> sched, g |-> game, c |-> ctl, u |-> ui,
     e |-> env, h |-> hist]

Becomes(T) ==
    /\ ball' = T.b /\ phys' = T.p /\ sched' = T.q /\ game' = T.g
    /\ ctl' = T.c /\ ui' = T.u /\ env' = T.e /\ hist' = T.h

\* The pending 250 ms screen timers kept at once.
MaxTransitions == 1

\* Resizes of the window in a behaviour.
MaxResizes == 1

\* The record of the last action starts empty; the record of the last tick stays.
Begin(S) ==
    [S EXCEPT !.h.ticks = 0, !.h.staleTicks = 0, !.h.dead = 0,
              !.h.goalEvents = 0, !.h.escaped = 0, !.h.resetLog = <<>>,
              !.h.obstacleEvents = 0, !.h.resized = FALSE, !.h.order = <<>>]

NoHistory ==
    [ticks |-> 0, staleTicks |-> 0, dead |-> 0, goalEvents |-> 0,
     goalSinceStart |-> 0, goalStopped |-> FALSE, escaped |-> 0,
     resetLog |-> <<>>, obstacleEvents |-> 0, resized |-> FALSE,
     order |-> <<>>, goalTestAt |-> [x |-> 0, y |-> 0],
     tested |-> <<>>, preHit |-> <<>>, hits |-> <<>>, prevTested |-> <<>>]

NoProbe ==
    [op |-> "none", steps |-> 0, pre |-> <<>>, obstacle |-> <<>>, forceX |-> 0,
     forceY |-> 0, onCollision |-> 0, violated |-> FALSE, wasViolated |-> FALSE,
     prevOp |-> "none", prevForceX |-> 0, prevForceY |-> 0, pre2 |-> <<>>,
     goal |-> <<>>, rect |-> <<>>, result |-> FALSE,
     dirX |-> 0, dirY |-> 0, beta |-> 0, gamma |-> 0]

\* TiltRunnerGame.initialize() in document L: new UIManager, new PhysicsEngine,
\* new Ball, new ControlsManager.
Constructed(L, draws) ==
    updateGoal(updateObstacles(
        [b |-> NewBall(ballStartX, ballStartY, ballRadius, L.width, L.height),
         p |-> [gravity |-> [x |-> 0, y |-> 0], obstacles |-> <<>>,
                goal |-> [present |-> FALSE, x |-> 0, y |-> 0, radius |-> 0],
                isRunning |-> FALSE],
         q |-> [now |-> 0, pending |-> <<>>],
         g |-> [gameState |-> "menu"],
         c |-> NewControls(L.mobile, L.mobile),
         u |-> [currentScreen |-> "start", isPaused |-> FALSE,
                transitions |-> <<"start">>,
                timerInterval |-> FALSE, leakedInterval |-> FALSE],
         e |-> L,
         h |-> NoHistory], draws))

Init ==
    /\ \E L \in Layouts :
         \E d \in MoveDraws :
            LET S == Constructed(L, [i \in 1..Len(L.obst) |-> d])
            IN  /\ ball = S.b /\ phys = S.p /\ sched = S.q /\ game = S.g
                /\ ctl = S.c /\ ui = S.u /\ env = S.e /\ hist = S.h
    /\ probe = NoProbe

\* An action of the program: the handler's result, within the model's bounds.
Does(T) ==
    /\ Len(T.q.pending) <= MaxPending
    /\ Len(T.u.transitions) <= MaxTransitions
    /\ Becomes(T)
    /\ UNCHANGED probe

\* keydown Enter (the start button; the play-again and restart buttons)
KeyEnter ==
    \/ /\ ui.currentScreen = "start"
       /\ Does(UI_startGame(Begin(State)))
    \/ /\ ui.currentScreen \in {"victory", "gameOver"}
       /\ Does(UI_restartGame(Begin(State)))

\* keydown Space (the pause button)
KeySpace ==
    /\ ui.currentScreen = "game"
    /\ Does(togglePause(Begin(State)))

\* keydown Escape
KeyEscape ==
    /\ ui.currentScreen = "game"
    /\ Does(showStartScreen(Begin(State)))

\* visibilitychange with document.hidden
PageHidden ==
    /\ game.gameState = "playing"
    /\ Does(pauseGame(Begin(State)))

\* A 250 ms timer of transitionToScreen fires.
ScreenTimer ==
    /\ ui.transitions # <<>>
    /\ Does([Begin(State) EXCEPT
                !.u.currentScreen = Head(ui.transitions),
                !.u.transitions = Tail(ui.transitions)])

\* The controls hand a force to applyForces (only while enabled).
ForceInput ==
    /\ ctl.isEnabled
    /\ \E f \in ForceInputs(env.mobile) :
          Does(applyForces(Begin(State), f[1], f[2]))

\* The window is resized (or the device turned): the document is laid out anew and
\* the debounced handler of 'resize' runs; d is what Math.random() gives the
\* rebuilt obstacles.
Resize ==
    /\ env.resizes < MaxResizes
    /\ \E D \in Relayouts, d \in ResizeDraws :
          LET S == [Begin(State) EXCEPT !.e = Relayout(env, D)]
          IN  Does(handleResize(S, [i \in 1..Len(S.e.obst) |-> d]))

\* A tick of a game timer's interval finds the time used up.  The seconds are not
\* counted: any tick of a live interval, while the UI is not paused, may be the
\* one that brings gameTimer.remaining to 0.
TimeUp ==
    /\ ui.timerInterval \/ ui.leakedInterval
    /\ ~ui.isPaused
    /\ Does(onTimeUp(Begin(State)))

RECURSIVE RunCallbacks(_, _)
RunCallbacks(S, callbacks) ==
    IF callbacks = <<>> THEN S
    ELSE RunCallbacks(Phys_update(S, Head(callbacks).stale), Tail(callbacks))

\* A display frame: the clock advances and the frame callbacks pending run in
\* the order they were requested.
Frame ==
    /\ sched.now < MaxTime
    /\ Does(RunCallbacks([Begin(State) EXCEPT !.q.now = @ + 1,
                                                       !.q.pending = <<>>],
                         sched.pending))

Next ==
    \/ KeyEnter
    \/ KeySpace
    \/ KeyEscape
    \/ PageHidden
    \/ ScreenTimer
    \/ ForceInput
    \/ Resize
    \/ TimeUp
    \/ Frame

Spec == Init /\ [][Next]_vars

(* ---------------- SpecBall: the Ball's methods called directly ---------------- *)

\* Ball positions, in pixels.
ProbePositions ==
    { <<50, 50>>, <<85, 85>>, <<60, 60>>, <<5, 50>>, <<186, 195>>, <<70, 36>> }

\* Ball velocities, in thousandths of a pixel per tick.
ProbeVelocities ==
    { <<0, 0>>, <<300, 0>>, <<90, -40>>, <<8000, 0>>, <<-4800, -6400>>,
      <<3000, 9000>>, <<7600, 0>> }

\* Container sizes, in pixels; a hidden container measures 0 x 0.
ProbeContainers == { <<200, 200>>, <<80, 80>>, <<0, 0>> }

\* Obstacle rectangles, in pixels.
ProbeObstacles ==
    { [x |-> Px(40), y |-> Px(40), width |-> Px(40), height |-> Px(40)],
      [x |-> Px(60), y |-> Px(40), width |-> Px(20), height |-> Px(20)],
      [x |-> Px(44), y |-> Px(55), width |-> Px(40), height |-> Px(10)] }

\* Forces: the nominal range is [-1, 1].
ProbeForces ==
    { <<0, 0>>, <<1000, 0>>, <<-1000, 1000>>, <<400, -400>>,
      <<60000, -60000>>, <<-60000, 0>> }

InitBall ==
    /\ \E pos \in ProbePositions, vel \in ProbeVelocities, size \in ProbeContainers,
          o \in ProbeObstacles :
          LET b == NewBall(Px(pos[1]), Px(pos[2]), ballRadius, Px(size[1]), Px(size[2]))
          IN  /\ ball = [b EXCEPT !.vx = vel[1], !.vy = vel[2]]
              /\ probe = [NoProbe EXCEPT !.op = "init", !.obstacle = o]
    /\ LET S == Constructed(CHOOSE L \in Layouts : L.obst = <<>>, <<>>)
       IN  /\ phys = S.p /\ sched = S.q /\ game = S.g /\ ctl = S.c /\ ui = S.u
           /\ env = S.e /\ hist = S.h

Called(op) ==
    /\ probe.steps < MaxSteps
    /\ UNCHANGED <<phys, sched, game, ctl, ui, env, hist>>

BallApplyForce ==
    /\ Called("applyForce")
    /\ \E f \in ProbeForces :
          /\ ball' = applyForce(ball, f[1], f[2])
          /\ probe' = [probe EXCEPT !.op = "applyForce", !.steps = @ + 1,
                                    !.pre = ball, !.forceX = f[1], !.forceY = f[2],
                                    !.onCollision = 0,
                                    !.prevOp = probe.op, !.pre2 = probe.pre,
                                    !.prevForceX = probe.forceX,
                                    !.prevForceY = probe.forceY]

BallUpdate ==
    /\ Called("update")
    /\ LET r == Ball_update(ball)
       IN  /\ ball' = r.b
           /\ probe' = [probe EXCEPT !.op = "update", !.steps = @ + 1, !.pre = ball,
                                     !.prevOp = probe.op,
                                     !.onCollision = r.onCollision,
                                     !.wasViolated = probe.violated,
                                     !.violated = ~InBounds(integrate(ball))]

\* The squares of handleObstacleCollision stay below 2^31.
InReach(b, obstacle) ==
    /\ Abs(b.x - (obstacle.x + Div(obstacle.width, 2))) <= 32767
    /\ Abs(b.y - (obstacle.y + Div(obstacle.height, 2))) <= 32767

BallHandleObstacle ==
    /\ Called("handleObstacleCollision")
    /\ InReach(ball, probe.obstacle)
    /\ ball' = handleObstacleCollision(ball, probe.obstacle)
    /\ probe' = [probe EXCEPT !.op = "handleObstacleCollision", !.steps = @ + 1,
                              !.prevOp = probe.op, !.pre = ball, !.onCollision = 1]

\* Goals of radius 6 px, by the offset of their center from the ball's center, in
\* thousandths of a pixel: at distance 18 (= 12 + 6), 17, 18 along a 3-4-5
\* triangle, 17.999 and 0.
ProbeGoalOffsets ==
    { <<18000, 0>>, <<17000, 0>>, <<10800, 14400>>, <<0, -17999>>, <<0, 0>> }

\* Ball.checkGoalCollision(goal), called directly.
BallCheckGoal ==
    /\ Called("checkGoalCollision")
    /\ \E off \in ProbeGoalOffsets :
          LET goal == [present |-> TRUE, x |-> ball.x + off[1], y |-> ball.y + off[2],
                       radius |-> Px(6)]
          IN  probe' = [probe EXCEPT !.op = "checkGoalCollision", !.steps = @ + 1,
                                     !.prevOp = probe.op, !.pre = ball,
                                     !.goal = goal,
                                     !.result = checkGoalCollision(ball, goal)]
    /\ UNCHANGED ball

\* Obstacle rectangles by the offset of their corner (x, y) from the ball's center
\* and their size, in thousandths of a pixel: the left edge at distance 12 (the
\* radius) and at 11.999; the corner at distance 12 along a 3-4-5 triangle and
\* just inside it; the right edge at distance 12; around the center; 40 px away.
ProbeRectOffsets ==
    { [dx |-> 12000, dy |-> -5000, width |-> 20000, height |-> 20000],
      [dx |-> 11999, dy |-> -5000, width |-> 20000, height |-> 20000],
      [dx |-> 7200, dy |-> 9600, width |-> 20000, height |-> 10000],
      [dx |-> 7200, dy |-> 9599, width |-> 20000, height |-> 10000],
      [dx |-> -32000, dy |-> -5000, width |-> 20000, height |-> 20000],
      [dx |-> -5000, dy |-> -5000, width |-> 10000, height |-> 10000],
      [dx |-> 40000, dy |-> -5000, width |-> 20000, height |-> 20000] }

\* Ball.checkObstacleCollision(obstacle), called directly.
BallCheckObstacle ==
    /\ Called("checkObstacleCollision")
    /\ \E off \in ProbeRectOffsets :
          LET rect == [x |-> ball.x + off.dx, y |-> ball.y + off.dy,
                       width |-> off.width, height |-> off.height]
          IN  probe' = [probe EXCEPT !.op = "checkObstacleCollision", !.steps = @ + 1,
                                     !.prevOp = probe.op, !.pre = ball,
                                     !.rect = rect,
                                     !.result = checkObstacleCollision(ball, rect)]
    /\ UNCHANGED ball

NextBall ==
    \/ BallApplyForce
    \/ BallUpdate
    \/ BallHandleObstacle
    \/ BallCheckGoal
    \/ BallCheckObstacle

SpecBall == InitBall /\ [][NextBall]_vars

(* ---------------- SpecDecay: Ball.update() called again and again, zero force ---------------- *)

\* The balls the decay is followed from: inside its bounds, and outside them so
\* that the first update() clamps and bounces; in a large and a small container.
DecayPositions == { <<50, 50>>, <<186, 195>> }

DecayContainers == { <<200, 200>>, <<80, 80>> }

InitDecay ==
    /\ \E pos \in DecayPositions, vel \in ProbeVelocities, size \in DecayContainers :
          LET b == NewBall(Px(pos[1]), Px(pos[2]), ballRadius, Px(size[1]), Px(size[2]))
          IN  ball = [b EXCEPT !.vx = vel[1], !.vy = vel[2]]
    /\ probe = [NoProbe EXCEPT !.op = "init"]
    /\ LET S == Constructed(CHOOSE L \in Layouts : L.obst = <<>>, <<>>)
       IN  /\ phys = S.p /\ sched = S.q /\ game = S.g /\ ctl = S.c /\ ui = S.u
           /\ env = S.e /\ hist = S.h

\* Ball.applyForce(0, 0): what a tick does before Ball.update() under zero gravity.
DecayZeroForce ==
    /\ ball' = applyForce(ball, 0, 0)
    /\ probe' = [probe EXCEPT !.op = "applyForce", !.pre = ball]
    /\ UNCHANGED <<phys, sched, game, ctl, ui, env, hist>>

\* Ball.update()
DecayUpdate ==
    /\ ball' = Ball_update(ball).b
    /\ probe' = [probe EXCEPT !.op = "update", !.pre = ball]
    /\ UNCHANGED <<phys, sched, game, ctl, ui, env, hist>>

NextDecay ==
    \/ DecayZeroForce
    \/ DecayUpdate

\* The caller keeps calling update(): every tick of the running engine does.
SpecDecay == InitDecay /\ [][NextDecay]_vars /\ WF_vars(DecayUpdate)

(* ---------------- SpecControls: the ControlsManager and the gravity it sets ---------------- *)

\* Raw (beta, gamma) of a 'deviceorientation' event, in thousandths of a degree:
\* flat, a moderate tilt, and tilts beyond 45 degrees.
TiltAngles ==
    { <<0, 0>>, <<30000, -20000>>, <<-90000, 60000>>, <<170000, -80000>> }

\* Arguments of setSensitivity: below 0 and above 2, the upper limit, the values
\* of the constructor's range.
SensitivityInputs == { <<-1000, 3000>>, <<2000, 500>>, <<1000, 1000>> }

\* Arguments (beta, gamma) of updateGravity called directly, in thousandths of a
\* degree: zero, the limits, just beyond them, and far beyond.
GravityInputs ==
    { <<0, 0>>, <<45000, -45000>>, <<45001, -90000>>, <<720000, -30000>>,
      <<-100000, 15000>> }

\* The program constructed in a document; on a mobile device the orientation
\* permission is there (Android) or still being asked for (iOS 13+).
InitControls ==
    /\ \E L \in Layouts, permission \in BOOLEAN :
          /\ permission => L.mobile
          /\ LET S == Constructed(L, [i \in 1..Len(L.obst) |->
                                       CHOOSE d \in MoveDraws : d.moveSpeed = 1])
             IN  /\ ball = S.b /\ phys = S.p /\ sched = S.q /\ game = S.g
                 /\ ui = S.u /\ env = S.e /\ hist = S.h
                 /\ ctl = NewControls(L.mobile, permission)
    /\ probe = NoProbe

\* A handler of the controls ran: the program's state, and the record of the call.
Handled(T, p) == Becomes(T) /\ probe' = p

\* The answer to DeviceOrientationEvent.requestPermission(): granted, or denied
\* (fallbackToDesktopControls).
CtlPermission ==
    /\ ctl.isMobile /\ ~ctl.hasOrientationPermission
    /\ \E granted \in BOOLEAN :
          Handled(IF granted THEN [State EXCEPT !.c.hasOrientationPermission = TRUE]
                             ELSE [State EXCEPT !.c.isMobile = FALSE],
                  [NoProbe EXCEPT !.op = "permission"])

\* ControlsManager.enable(), called by startGame and resumeGame
CtlEnable ==
    /\ ~ctl.isEnabled
    /\ Handled(Ctl_enable(State), [NoProbe EXCEPT !.op = "enable"])

\* ControlsManager.disable(), called by pauseGame, restartGame, handleGoalReached
\* and gameOver
CtlDisable ==
    /\ ctl.isEnabled
    /\ Handled(Ctl_disable(State), [NoProbe EXCEPT !.op = "disable"])

\* keydown of one of the eight keys (the listeners exist with keyboard controls)
CtlKeyDown ==
    /\ ~ctl.isMobile
    /\ \E code \in KeyCodes :
          Handled(keydown(State, code), [NoProbe EXCEPT !.op = "keydown"])

\* keyup of one of the eight keys
CtlKeyUp ==
    /\ ~ctl.isMobile
    /\ \E code \in KeyCodes :
          Handled(keyup(State, code), [NoProbe EXCEPT !.op = "keyup"])

\* A frame of the keyboard loop
CtlKeyboardLoop ==
    /\ ~ctl.isMobile
    /\ LET d == keyDirection(ctl.keys)
           f == keyboardForce(ctl)
       IN  Handled(updateKeyboard(State),
                   IF ctl.isEnabled
                   THEN [NoProbe EXCEPT !.op = "updateKeyboard",
                                        !.dirX = d.x, !.dirY = d.y,
                                        !.forceX = f.x, !.forceY = f.y]
                   ELSE [NoProbe EXCEPT !.op = "idle"])

\* A 'deviceorientation' event (the listener exists with the permission)
CtlOrientation ==
    /\ ctl.isMobile /\ ctl.hasOrientationPermission
    /\ \E a \in TiltAngles :
          LET T == deviceorientation(State, a[1], a[2])
              f == orientationForce(T.c)
          IN  Handled(T,
                      IF ctl.isEnabled
                      THEN [NoProbe EXCEPT !.op = "deviceorientation",
                                           !.beta = a[1], !.gamma = a[2],
                                           !.forceX = f.x, !.forceY = f.y]
                      ELSE [NoProbe EXCEPT !.op = "idle"])

\* ControlsManager.calibrate(): a click on the controls' text, the timer of
\* enable(), or a direct call
CtlCalibrate ==
    /\ Becomes(calibrate(State))
    /\ probe' = [NoProbe EXCEPT !.op = "calibrate"]

\* ControlsManager.setSensitivity(m, d)
CtlSetSensitivity ==
    \E v \in SensitivityInputs :
        /\ Becomes(setSensitivity(State, v[1], v[2]))
        /\ probe' = [NoProbe EXCEPT !.op = "setSensitivity"]

\* PhysicsEngine.updateGravity(beta, gamma), called directly
GravityDirect ==
    \E a \in GravityInputs :
        /\ Becomes(updateGravity(State, a[1], a[2]))
        /\ probe' = [NoProbe EXCEPT !.op = "updateGravity",
                                    !.beta = a[1], !.gamma = a[2]]

NextControls ==
    \/ CtlPermission
    \/ CtlEnable
    \/ CtlDisable
    \/ CtlKeyDown
    \/ CtlKeyUp
    \/ CtlKeyboardLoop
    \/ CtlOrientation
    \/ CtlCalibrate
    \/ CtlSetSensitivity
    \/ GravityDirect

SpecControls == InitControls /\ [][NextControls]_vars

(* ---------------- SpecResize: resizes of a window whose layout stays the same ---------------- *)

\* The program constructed in the document with obstacles and a goal.
InitResize ==
    /\ Init
    /\ ~env.mobile

\* The window's 'resize' event with the document as it is: the container has its
\* size, the obstacle elements and the goal element are where the layout put
\* them, and the obstacle elements carry the style.left / style.top written by
\* the ticks so far.
ResizeUnchanged ==
    /\ env.resizes < MaxResizes
    /\ \E d \in ResizeDraws :
          LET S == [Begin(State) EXCEPT !.e.resizes = @ + 1]
          IN  Does(handleResize(S, [i \in 1..Len(S.e.obst) |-> d]))

NextResize ==
    \/ KeyEnter
    \/ KeySpace
    \/ ScreenTimer
    \/ ForceInput
    \/ ResizeUnchanged
    \/ Frame

SpecResize == InitResize /\ [][NextResize]_vars

(* ---------------- SpecScreens: the screens' class lists and the timers of transitionToScreen ---------------- *)

\* The keys of UIManager.screens.
ScreenNames == {"start", "game", "victory", "gameOver"}

\* The delays of the three timers of transitionToScreen, in ms.
hideDelay == 500
showDelay == 250
fadeInDelay == 500

\* The timers of transitionToScreen kept pending at once.
MaxTimers == 6

\* new UIManager before initializeUI(): the screen elements as the markup has
\* them (those in hiddenAtLoad carry 'hidden'), currentScreen 'start', no timer.
\* playing and countdown stand for TiltRunnerGame.gameState = 'playing' and for
\* gameTimer.interval; last is the latest call of transitionToScreen.
NewScreens(hiddenAtLoad) ==
    [currentScreen |-> "start",
     classes |-> [s \in ScreenNames |->
                    IF s \in hiddenAtLoad THEN {"hidden"} ELSE {}],
     timers |-> <<>>,
     playing |-> FALSE,
     countdown |-> FALSE,
     last |-> [target |-> "start", previous |-> "start"]]

\* setTimeout(callback, delay): the timer joins the pending ones, after those
\* created before it.
setTimeout(U, delay, kind, screen, latest) ==
    [U EXCEPT !.timers = Append(@, [left |-> delay, kind |-> kind,
                                    screen |-> screen, latest |-> latest])]

\* UIManager.transitionToScreen(screenName), with the class lists
Screens_transitionToScreen(U, screenName) ==
    LET called == [U EXCEPT
                     !.last = [target |-> screenName,
                               previous |-> U.currentScreen],
                     !.timers = [i \in 1..Len(@) |->
                                   [@[i] EXCEPT !.latest = FALSE]]]
        faded == [called EXCEPT
                     !.classes[U.currentScreen] = @ \cup {"fade-out"}]
    IN  setTimeout(setTimeout(faded, hideDelay, "hide", screenName, TRUE),
                   showDelay, "show", screenName, TRUE)

\* The callback of a timer of transitionToScreen. The 500 ms callback reads
\* this.currentScreen when it runs.
timerCallback(U, t) ==
    CASE t.kind = "hide" ->
            [U EXCEPT !.classes[U.currentScreen] =
                         (@ \cup {"hidden"}) \ {"fade-out"}]
      [] t.kind = "show" ->
            setTimeout([U EXCEPT !.classes[t.screen] =
                                    (@ \ {"hidden"}) \cup {"fade-in"},
                                 !.currentScreen = t.screen],
                       fadeInDelay, "unfade", t.screen, t.latest)
      [] t.kind = "unfade" ->
            [U EXCEPT !.classes[t.screen] = @ \ {"fade-in"}]

\* The pending timer that fires next: the least time left, the earliest
\* created among equals.
NextTimer(timers) ==
    CHOOSE i \in 1..Len(timers) :
        \A j \in 1..Len(timers) :
            \/ timers[i].left < timers[j].left
            \/ timers[i].left = timers[j].left /\ i <= j

Without(timers, i) ==
    [j \in 1..(Len(timers) - 1) |-> IF j < i THEN timers[j] ELSE timers[j + 1]]

\* The program constructed: initializeUI() ends with showStartScreen().
InitScreens ==
    /\ \E L \in Layouts :
          /\ ~L.mobile
          /\ LET S == Constructed(L, [i \in 1..Len(L.obst) |->
                                       CHOOSE d \in MoveDraws : d.moveSpeed = 1])
             IN  /\ ball = S.b /\ phys = S.p /\ sched = S.q /\ game = S.g
                 /\ ctl = S.c /\ env = S.e /\ hist = S.h
    /\ \E hiddenAtLoad \in SUBSET ScreenNames :
          ui = Screens_transitionToScreen(NewScreens(hiddenAtLoad), "start")
    /\ probe = NoProbe

\* A handler of the UIManager ran.
Shows(U) ==
    /\ Len(U.timers) <= MaxTimers
    /\ ui' = U
    /\ UNCHANGED <<ball, phys, sched, game, ctl, env, hist, probe>>

\* keydown Enter: startGame() on the start screen, restartGame() on the
\* victory and game-over screens; both show the game screen.
ScreensEnter ==
    /\ ui.currentScreen \in {"start", "victory", "gameOver"}
    /\ Shows([Screens_transitionToScreen(ui, "game") EXCEPT
                 !.playing = TRUE, !.countdown = TRUE])

\* keydown Escape: showStartScreen(), which stops the countdown.
ScreensEscape ==
    /\ ui.currentScreen = "game"
    /\ Shows([Screens_transitionToScreen(ui, "start") EXCEPT
                 !.countdown = FALSE])

\* The ball reaches the goal: handleVictory() shows the victory screen.
ScreensVictory ==
    /\ ui.playing
    /\ Shows([Screens_transitionToScreen(ui, "victory") EXCEPT
                 !.playing = FALSE, !.countdown = FALSE])

\* The countdown reaches 0, long after the timers of the transition that
\* started it: showGameOverScreen().
ScreensTimeUp ==
    /\ ui.countdown
    /\ ui.timers = <<>>
    /\ Shows([Screens_transitionToScreen(ui, "gameOver") EXCEPT
                 !.playing = FALSE, !.countdown = FALSE])

\* A timer of transitionToScreen that is due fires.
ScreensTimer ==
    /\ ui.timers # <<>>
    /\ LET i == NextTimer(ui.timers)
       IN  /\ ui.timers[i].left = 0
           /\ Shows(timerCallback([ui EXCEPT !.timers = Without(@, i)],
                                  ui.timers[i]))

\* showDelay ms pass with no timer due.
ScreensWait ==
    /\ ui.timers # <<>>
    /\ \A i \in 1..Len(ui.timers) : ui.timers[i].left > 0
    /\ Shows([ui EXCEPT !.timers = [i \in 1..Len(@) |->
                                      [@[i] EXCEPT !.left = @ - showDelay]]])

NextScreens ==
    \/ ScreensEnter
    \/ ScreensEscape
    \/ ScreensVictory
    \/ ScreensTimeUp
    \/ ScreensTimer
    \/ ScreensWait

SpecScreens == InitScreens /\ [][NextScreens]_vars

(* ---------------- the claims ---------------- *)

WellFormed(bounds) == bounds.left <= bounds.right /\ bounds.top <= bounds.bottom

\* The velocity applyForce clamps: the old velocity plus force * acceleration.
RawSpeed ==
    LET vx1 == probe.pre.vx + Mul(probe.forceX, acceleration)
        vy1 == probe.pre.vy + Mul(probe.forceY, acceleration)
    IN  Sqrt(vx1 * vx1 + vy1 * vy1)

\* C1: after Ball.applyForce(fx, fy), for every velocity and every force, the
\* speed sqrt(vx^2 + vy^2) is at most maxSpeed.
C1_SpeedAtMostMaxSpeed ==
    probe.op = "applyForce" => Speed(ball) <= maxSpeed

\* C1, its case: an extreme negative force drove the speed over maxSpeed.
C1_Witness ==
    /\ probe.op = "applyForce"
    /\ probe.forceX < -Scale
    /\ RawSpeed > 2 * maxSpeed
    /\ ball.vx < 0

\* C2 as stated: after Ball.update() the position is within the bounds, for every
\* position, velocity and bounds.
C2_ContainedForEveryBounds ==
    probe.op = "update" => InBounds(ball)

\* C2, amended: after Ball.update() the position is within the bounds whenever
\* bounds.left <= bounds.right and bounds.top <= bounds.bottom.
C2_ContainedForWellFormedBounds ==
    (probe.op = "update" /\ WellFormed(ball.bounds)) => InBounds(ball)

\* C2, its case: the integrated position had left well-formed bounds.
C2_Witness ==
    /\ probe.op = "update"
    /\ WellFormed(ball.bounds)
    /\ probe.violated
    /\ InBounds(ball)

\* C3: at the end of every tick the ball is within the bounds (stated for
\* well-formed bounds; hist.escaped counts the ticks of the last action that ended
\* with the ball outside).
C3_ContainedAfterEveryTick ==
    WellFormed(ball.bounds) => hist.escaped = 0

\* C4: after Ball.handleObstacleCollision(obstacle), for a ball whose center is not
\* the obstacle's, checkObstacleCollision(obstacle) is false.
C4_SeparatedAfterResponse ==
    ( /\ probe.op = "handleObstacleCollision"
      /\ \/ probe.pre.x # probe.obstacle.x + Div(probe.obstacle.width, 2)
         \/ probe.pre.y # probe.obstacle.y + Div(probe.obstacle.height, 2) )
        => ~checkObstacleCollision(ball, probe.obstacle)

\* C5: every obstacle the ball intersects when collision detection begins gets
\* its response and its obstacleHit event in that tick.
C5_AllSimultaneousHitsProcessed ==
    \A i \in DOMAIN hist.preHit : hist.preHit[i] => hist.hits[i] = 1

\* C6: in a tick, obstacle o gets exactly one obstacleHit when its test is true,
\* whether or not it was hit in the tick before, and none when its test is false.
C6_ObstacleHitsLevelTriggered ==
    \A i \in DOMAIN hist.tested :
        hist.hits[i] = IF hist.tested[i] THEN 1 ELSE 0

\* C6, its case: an obstacle hit in two ticks in a row, with an event in the second.
C6_Witness ==
    \E i \in DOMAIN hist.tested :
        /\ i \in DOMAIN hist.prevTested
        /\ hist.prevTested[i]
        /\ hist.tested[i]
        /\ hist.hits[i] = 1

\* C7: after a tick that detected the goal, and until start() is called again, a
\* display frame runs no tick: the ball keeps its position and velocity and no
\* event is fired.
C7_GoalStopsTicking ==
    [][ (hist.goalStopped /\ sched'.now # sched.now)
            => (ball' = ball /\ hist'.ticks = 0 /\ hist'.goalEvents = 0) ]_vars

\* C7, its case: a frame after the goal was reached, whose callback did nothing.
C7_Witness ==
    /\ hist.goalStopped
    /\ hist.dead > 0
    /\ game.gameState = "victory"

\* C8: between a start() and the next start(), at most one goalReached event.
C8_GoalReachedAtMostOnce ==
    hist.goalSinceStart <= 1

\* C8, its case: the event was fired, frames went by, and the ball still overlaps
\* the goal.
C8_Witness ==
    /\ hist.goalSinceStart = 1
    /\ hist.dead > 0
    /\ phys.goal.present
    /\ checkGoalCollision(ball, phys.goal)

\* C9: a frame callback scheduled before a stop() never runs a tick, also when
\* start() is called before the callback runs.
C9_StopCancelsScheduledTicks ==
    hist.staleTicks = 0

\* C10: in a sequence of Ball.update() calls the boundary check calls onCollision
\* exactly in the update where an edge is violated and none was in the update
\* before, and isColliding is true after an update exactly when an edge was
\* violated in it.
C10_BoundaryFlagEdgeTriggered ==
    probe.op = "update" =>
        /\ probe.onCollision = IF probe.violated /\ ~probe.wasViolated THEN 1 ELSE 0
        /\ ball.isColliding = probe.violated

\* C10, its case: the second update in a row with an edge violated, and no hook.
C10_Witness ==
    /\ probe.op = "update"
    /\ probe.violated
    /\ probe.wasViolated
    /\ WellFormed(ball.bounds)
    /\ probe.onCollision = 0

\* The last two calls were applyForce with the same force.
TwiceSameForce ==
    /\ probe.op = "applyForce"
    /\ probe.prevOp = "applyForce"
    /\ probe.prevForceX = probe.forceX
    /\ probe.prevForceY = probe.forceY

\* The forces whose double keeps the squares of applyForce below 2^31.
DoubleInRange == Abs(probe.forceX) + Abs(probe.forceY) <= 60 * Scale

\* The first of the two calls did not clamp: it left the old velocity plus
\* force * acceleration.
FirstUnclamped ==
    /\ probe.pre.vx = probe.pre2.vx + Mul(probe.forceX, acceleration)
    /\ probe.pre.vy = probe.pre2.vy + Mul(probe.forceY, acceleration)

\* applyForce(2f) from the velocity before the two calls.
Doubled == applyForce(probe.pre2, 2 * probe.forceX, 2 * probe.forceY)

\* C12 as stated: for every velocity and force f, applyForce(f) twice leaves the
\* velocity applyForce(2f) leaves.
C12_TwiceEqualsDoubled ==
    (TwiceSameForce /\ DoubleInRange)
        => (ball.vx = Doubled.vx /\ ball.vy = Doubled.vy)

\* C12, amended: applyForce(f) twice leaves the velocity of applyForce(2f) whenever
\* the first call does not clamp (the speed after it is at most maxSpeed).
C12_TwiceEqualsDoubledWhenFirstUnclamped ==
    (TwiceSameForce /\ FirstUnclamped)
        => (ball.vx = Doubled.vx /\ ball.vy = Doubled.vy)

\* C12, its case: the first call did not clamp and the second did.
C12_Witness ==
    /\ TwiceSameForce
    /\ FirstUnclamped
    /\ probe.forceX # 0
    /\ RawSpeed > maxSpeed

AtCenter(b, obstacle) ==
    /\ b.x = obstacle.x + Div(obstacle.width, 2)
    /\ b.y = obstacle.y + Div(obstacle.height, 2)

\* C16: for a ball whose center is the obstacle's rectangle center,
\* checkObstacleCollision is true and handleObstacleCollision leaves position and
\* velocity as they were.
C16_CenterCoincidenceLeavesBall ==
    (probe.op = "handleObstacleCollision" /\ AtCenter(probe.pre, probe.obstacle))
        => /\ checkObstacleCollision(probe.pre, probe.obstacle)
           /\ ball.x = probe.pre.x /\ ball.y = probe.pre.y
           /\ ball.vx = probe.pre.vx /\ ball.vy = probe.pre.vy

\* C16, its case: a moving ball at the obstacle's center got the response.
C16_Witness ==
    /\ probe.op = "handleObstacleCollision"
    /\ AtCenter(probe.pre, probe.obstacle)
    /\ probe.pre.vx # 0
    /\ ball.vx = probe.pre.vx

\* The last two statements of Ball.update() on one component.
Zeroed(v) == IF Abs(v) < stopThreshold THEN 0 ELSE v

\* C19 as stated: in Ball.update(), when the integrated position exceeds an edge
\* the position is that bound and the velocity component is -bounce times its
\* value after friction.
C19_EdgeClampsAndBounces ==
    probe.op = "update" =>
        LET f == integrate(probe.pre)
        IN  /\ f.x > f.bounds.right =>
                (ball.x = f.bounds.right /\ ball.vx = -Mul(f.vx, bounce))
            /\ f.x < f.bounds.left =>
                (ball.x = f.bounds.left /\ ball.vx = -Mul(f.vx, bounce))
            /\ f.y > f.bounds.bottom =>
                (ball.y = f.bounds.bottom /\ ball.vy = -Mul(f.vy, bounce))
            /\ f.y < f.bounds.top =>
                (ball.y = f.bounds.top /\ ball.vy = -Mul(f.vy, bounce))

\* C19, amended: with left <= right and top <= bottom, when the integrated position
\* exceeds an edge the position is that bound and the velocity component is
\* -bounce times its value after friction, set to 0 when that is below 0.1 in
\* magnitude; an axis with no edge exceeded keeps its integrated position.
C19_EdgeClampsAndBouncesThenStops ==
    (probe.op = "update" /\ WellFormed(ball.bounds)) =>
        LET f == integrate(probe.pre)
        IN  /\ f.x > f.bounds.right =>
                (ball.x = f.bounds.right /\ ball.vx = Zeroed(-Mul(f.vx, bounce)))
            /\ f.x < f.bounds.left =>
                (ball.x = f.bounds.left /\ ball.vx = Zeroed(-Mul(f.vx, bounce)))
            /\ (f.bounds.left <= f.x /\ f.x <= f.bounds.right) =>
                (ball.x = f.x /\ ball.vx = Zeroed(f.vx))
            /\ f.y > f.bounds.bottom =>
                (ball.y = f.bounds.bottom /\ ball.vy = Zeroed(-Mul(f.vy, bounce)))
            /\ f.y < f.bounds.top =>
                (ball.y = f.bounds.top /\ ball.vy = Zeroed(-Mul(f.vy, bounce)))
            /\ (f.bounds.top <= f.y /\ f.y <= f.bounds.bottom) =>
                (ball.y = f.y /\ ball.vy = Zeroed(f.vy))

\* C19, its case: the right edge was exceeded with speed, the y axis was not.
C19_Witness ==
    /\ probe.op = "update"
    /\ WellFormed(ball.bounds)
    /\ integrate(probe.pre).x > ball.bounds.right
    /\ ball.vx < 0
    /\ ball.y = integrate(probe.pre).y

\* C20: checkGoalCollision(goal) is true exactly when the distance of the centers
\* is less than radius + goal.radius: true at radius + goal.radius - 1, false at
\* radius + goal.radius.
C20_GoalTestStrict ==
    probe.op = "checkGoalCollision" =>
        LET dx == probe.pre.x - probe.goal.x
            dy == probe.pre.y - probe.goal.y
            R  == probe.pre.radius + probe.goal.radius
        IN  probe.result = (dx * dx + dy * dy < R * R)

\* C20, its case: a goal at exactly radius + goal.radius, off the axes.
C20_Witness ==
    /\ probe.op = "checkGoalCollision"
    /\ probe.pre.x # probe.goal.x
    /\ probe.pre.y # probe.goal.y
    /\ (probe.pre.x - probe.goal.x) * (probe.pre.x - probe.goal.x)
         + (probe.pre.y - probe.goal.y) * (probe.pre.y - probe.goal.y)
       = (probe.pre.radius + probe.goal.radius) * (probe.pre.radius + probe.goal.radius)
    /\ ~probe.result

\* C11: under zero force |vx| and |vy| never increase from one call to the next,
\* the velocity eventually is (0,0) and stays (0,0), and after every update() a
\* component is 0 or at least 0.1 in magnitude (the update in which it falls below
\* 0.1 sets it to 0).
C11_DecaysToRest ==
    /\ [][Abs(ball'.vx) <= Abs(ball.vx) /\ Abs(ball'.vy) <= Abs(ball.vy)]_vars
    /\ <>[](ball.vx = 0 /\ ball.vy = 0)
    /\ [](probe.op = "update" =>
            /\ (ball.vx = 0 \/ Abs(ball.vx) >= stopThreshold)
            /\ (ball.vy = 0 \/ Abs(ball.vy) >= stopThreshold))

\* C11, its case: the update in which the last moving component, at least 0.1
\* before it, fell below 0.1 and was set to 0, in a container that holds the ball.
C11_Witness ==
    /\ probe.op = "update"
    /\ ball.bounds.left < ball.bounds.right
    /\ \/ Abs(probe.pre.vx) >= stopThreshold
       \/ Abs(probe.pre.vy) >= stopThreshold
    /\ ball.vx = 0
    /\ ball.vy = 0

\* The ball as reset() leaves it: at its start position, at rest, flag cleared.
AtStart(b) ==
    /\ b.x = b.startX /\ b.y = b.startY
    /\ b.vx = 0 /\ b.vy = 0
    /\ ~b.isColliding

\* C13: PhysicsEngine.reset() (with Ball.reset()) called on the state a reset()
\* left changes nothing, and that state has the ball at its start position with
\* velocity (0,0) and isColliding false, for the resets of the last action
\* (hist.resetLog) and for a reset of the current state.
C13_ResetIdempotent ==
    /\ \A k \in DOMAIN hist.resetLog :
          LET R == hist.resetLog[k].post
          IN  /\ Phys_reset(R) = R
              /\ Ball_reset(R.b) = R.b
              /\ AtStart(R.b)
    /\ LET R == Phys_reset(State)
       IN  Phys_reset(R) = R /\ AtStart(R.b)

\* C13, its case: restartGame's two resets in a row, the first from a state with
\* the ball away from its start position and moving.
C13_Witness ==
    /\ Len(hist.resetLog) = 3
    /\ ~AtStart(hist.resetLog[2].pre.b)
    /\ hist.resetLog[2].pre.b.vx # 0
    /\ hist.resetLog[3].pre = hist.resetLog[2].post
    /\ hist.resetLog[3].post = hist.resetLog[2].post

\* C14: PhysicsEngine.reset() puts every obstacle at its origin, resets the ball,
\* zeroes the gravity, and leaves isRunning and the pending frame callbacks as
\* they were.
C14_ResetKeepsLoopState ==
    \A k \in DOMAIN hist.resetLog :
        LET pre  == hist.resetLog[k].pre
            post == hist.resetLog[k].post
        IN  /\ \A i \in DOMAIN post.p.obstacles :
                  /\ post.p.obstacles[i].x = post.p.obstacles[i].originalX
                  /\ post.p.obstacles[i].y = post.p.obstacles[i].originalY
            /\ Len(post.p.obstacles) = Len(pre.p.obstacles)
            /\ AtStart(post.b)
            /\ post.p.gravity = [x |-> 0, y |-> 0]
            /\ post.p.isRunning = pre.p.isRunning
            /\ post.q = pre.q

\* C14, its case: a reset while the loop runs with a frame callback pending,
\* gravity set, an obstacle away from its origin.
C14_Witness ==
    \E k \in DOMAIN hist.resetLog :
        LET pre == hist.resetLog[k].pre
        IN  /\ pre.p.isRunning
            /\ pre.q.pending # <<>>
            /\ pre.p.gravity.x # 0
            /\ \E i \in DOMAIN pre.p.obstacles :
                  pre.p.obstacles[i].y # pre.p.obstacles[i].originalY
            /\ hist.resetLog[k].post.p.isRunning

C17_NoGeometryNoEvents ==
    /\ ~env.goal.present => hist.goalEvents = 0
    /\ env.obst = <<>> => hist.obstacleEvents = 0

\* The steps of a tick of an engine with n obstacles, in the order of C18.
TickOrder(n) ==
    << [step |-> "updateMovingObstacles", i |-> 0],
       [step |-> "applyForce", i |-> 0],
       [step |-> "update", i |-> 0] >>
    \o [i \in 1..n |-> [step |-> "checkObstacleCollision", i |-> i]]
    \o << [step |-> "goal", i |-> 0] >>

\* C18: the steps of a tick run in the order obstacle motion, gravity, Ball.update(),
\* the obstacle tests in list order, the goal test; and the goal test sees the
\* position the obstacle responses of that tick left (hist.order and
\* hist.goalTestAt record the last tick of the last action).
C18_TickOrder ==
    hist.order # <<>> =>
        /\ hist.order = TickOrder(Len(phys.obstacles))
        /\ hist.goalTestAt = [x |-> ball.x, y |-> ball.y]

\* C18, its case: a tick with an obstacle response, after which the goal test ran.
C18_Witness ==
    /\ hist.order # <<>>
    /\ hist.ticks > 0
    /\ \E i \in DOMAIN hist.hits : hist.hits[i] = 1
    /\ hist.goalEvents = 1

\* The point of an axis-aligned rectangle nearest to (x, y), by cases.
NearestPoint(x, y, rect) ==
    [x |-> IF x < rect.x THEN rect.x
           ELSE IF x > rect.x + rect.width THEN rect.x + rect.width ELSE x,
     y |-> IF y < rect.y THEN rect.y
           ELSE IF y > rect.y + rect.height THEN rect.y + rect.height ELSE y]

\* The squared distance from the ball's center to the rectangle probe.rect.
RectDistanceSquared ==
    LET n == NearestPoint(ball.x, ball.y, probe.rect)
    IN  (ball.x - n.x) * (ball.x - n.x) + (ball.y - n.y) * (ball.y - n.y)

\* C21: checkObstacleCollision(obstacle) is true iff the squared distance from the
\* ball's center to the nearest point of the rectangle is strictly less than
\* radius squared.
C21_CircleRectangleTest ==
    probe.op = "checkObstacleCollision" =>
        (probe.result <=> RectDistanceSquared < ball.radius * ball.radius)

\* C21, its case: a ball exactly tangent to the rectangle's corner, no collision.
C21_Witness ==
    /\ probe.op = "checkObstacleCollision"
    /\ ball.x < probe.rect.x
    /\ ball.y < probe.rect.y
    /\ RectDistanceSquared = ball.radius * ball.radius
    /\ ~probe.result

\* x moved by d and then put back between the edges lo and hi as
\* checkBoundaryCollisions does: the low edge first, then the high edge.
Clamped(x, lo, hi) ==
    LET x1 == IF x < lo THEN lo ELSE x
    IN  IF x1 > hi THEN hi ELSE x1

\* C22: Ball.update() applies friction, then moves the position by the
\* post-friction velocity, then clamps it to the bounds, then zeroes a slow
\* component: from velocity (0.3, 0) the position shifts by 0.285 and the velocity
\* becomes (0.285, 0), and a component below 0.1 after friction still moves the
\* position in that update.
C22_UpdateOrder ==
    probe.op = "update" =>
        LET fx == Mul(probe.pre.vx, friction)
            fy == Mul(probe.pre.vy, friction)
        IN  /\ ball.x = Clamped(probe.pre.x + fx, ball.bounds.left, ball.bounds.right)
            /\ ball.y = Clamped(probe.pre.y + fy, ball.bounds.top, ball.bounds.bottom)
            /\ ~probe.violated =>
                  /\ ball.vx = (IF Abs(fx) < stopThreshold THEN 0 ELSE fx)
                  /\ ball.vy = (IF Abs(fy) < stopThreshold THEN 0 ELSE fy)
            /\ (probe.pre.vx = 300 /\ probe.pre.vy = 0 /\ ~probe.violated) =>
                  /\ ball.x - probe.pre.x = 285
                  /\ ball.vx = 285 /\ ball.vy = 0

\* C22, its case: a velocity of 0.09 becomes 0.085 by friction, moves the ball by
\* 0.085 and is then set to 0.
C22_Witness ==
    /\ probe.op = "update"
    /\ ~probe.violated
    /\ probe.pre.vx = 90
    /\ ball.x = probe.pre.x + 85
    /\ ball.vx = 0

\* A force was handed to applyForces by the last handler.
Handed == probe.op \in {"updateKeyboard", "deviceorientation"}

\* C23: each axis of the force ControlsManager hands to applyForces lies in
\* [-1, 1], for every raw input and every sensitivity setSensitivity can set.
C23_ForceWithinUnit ==
    Handed => (Abs(probe.forceX) <= Scale /\ Abs(probe.forceY) <= Scale)

\* The sensitivity PhysicsEngine.updateGravity applies on this device.
EngineSensitivity == IF env.mobile THEN sensitivityMobile ELSE sensitivityDesktop

\* clamp(angle, -45, 45) / 45 * sensitivity, by cases.
ClampedGravity(angle) ==
    IF angle >= maxTilt THEN EngineSensitivity
    ELSE IF angle <= -maxTilt THEN -EngineSensitivity
    ELSE Mul(Div(angle * Scale, maxTilt), EngineSensitivity)

\* C24: updateGravity(beta, gamma) sets gravity.x = clamp(gamma, -45, 45) / 45 *
\* sensitivity and gravity.y = clamp(beta, -45, 45) / 45 * sensitivity, also for
\* angles far outside [-45, 45]; each gravity component is at most the
\* sensitivity in magnitude in every state.
C24_GravityClamped ==
    /\ Abs(phys.gravity.x) <= EngineSensitivity
    /\ Abs(phys.gravity.y) <= EngineSensitivity
    /\ probe.op = "updateGravity" =>
          /\ phys.gravity.x = ClampedGravity(probe.gamma)
          /\ phys.gravity.y = ClampedGravity(probe.beta)
    /\ Handed =>
          /\ phys.gravity.x = ClampedGravity(Mul(probe.forceX, maxTilt))
          /\ phys.gravity.y = ClampedGravity(Mul(probe.forceY, maxTilt))

\* C24, its case: updateGravity called with beta = 720 degrees, clamped to the
\* sensitivity.
C24_Witness ==
    /\ probe.op = "updateGravity"
    /\ probe.beta > 2 * maxTilt
    /\ phys.gravity.y = EngineSensitivity
    /\ phys.gravity.x < 0

\* A direction is pressed iff its arrow key or its letter key is down.
Pressed(arrow, letter) == ctl.keys[arrow] \/ ctl.keys[letter]

\* C25: in key mode the force before sensitivity is (right ? 1 : 0) - (left ? 1 : 0)
\* and (down ? 1 : 0) - (up ? 1 : 0), for every combination of the eight key flags.
C25_KeyDirections ==
    probe.op = "updateKeyboard" =>
        /\ probe.dirX = (IF Pressed("ArrowRight", "KeyD") THEN Scale ELSE 0)
                         - (IF Pressed("ArrowLeft", "KeyA") THEN Scale ELSE 0)
        /\ probe.dirY = (IF Pressed("ArrowDown", "KeyS") THEN Scale ELSE 0)
                         - (IF Pressed("ArrowUp", "KeyW") THEN Scale ELSE 0)

\* C25, its case: both keys of "right" held give 1, not 2; "up" and "down" held
\* together give 0.
C25_Witness ==
    /\ probe.op = "updateKeyboard"
    /\ ctl.keys["ArrowRight"] /\ ctl.keys["KeyD"]
    /\ ~Pressed("ArrowLeft", "KeyA")
    /\ ctl.keys["ArrowUp"] /\ ctl.keys["KeyS"]
    /\ probe.dirX = Scale
    /\ probe.dirY = 0

\* C26: calibrate() leaves the gravity and the ball as they are and only stores
\* the stored raw (beta, gamma) as offsets, and nothing at all when the device is
\* not mobile or has no orientation permission; every orientation event is
\* normalized from raw - offset.
C26_CalibrateShiftsLaterInput ==
    /\ [][ probe'.op = "calibrate" =>
             /\ ball' = ball /\ phys' = phys
             /\ IF ctl.isMobile /\ ctl.hasOrientationPermission
                THEN ctl' = [ctl EXCEPT !.calibration =
                                [beta |-> ctl.orientation.beta,
                                 gamma |-> ctl.orientation.gamma,
                                 isCalibrated |-> TRUE]]
                ELSE ctl' = ctl ]_vars
    /\ [](probe.op = "deviceorientation" =>
             /\ probe.forceX =
                   Mul(Max(-Scale, Min(Scale,
                           Div((probe.gamma - ctl.calibration.gamma) * Scale, maxTilt))),
                       ctl.sensitivity.mobile)
             /\ probe.forceY =
                   Mul(Max(-Scale, Min(Scale,
                           Div((probe.beta - ctl.calibration.beta) * Scale, maxTilt))),
                       ctl.sensitivity.mobile))

\* C26, its case: after a calibration at a tilted position, an event at that raw
\* position is normalized to force (0, 0).
C26_Witness ==
    /\ probe.op = "deviceorientation"
    /\ ctl.calibration.isCalibrated
    /\ ctl.calibration.beta # 0
    /\ probe.beta = ctl.calibration.beta
    /\ probe.gamma = ctl.calibration.gamma
    /\ probe.forceX = 0 /\ probe.forceY = 0
    /\ ctl.sensitivity.mobile > 0


\* Where updateMovingObstacles puts obstacle o at the clock's sample now: a
\* function of its original origin, its motion parameters and the sample.
PlaceAt(o, now) ==
    [x |-> o.originalX + Mul(sin(now * o.moveSpeed), o.moveRadius),
     y |-> o.originalY + Div(Mul(cos07(now * o.moveSpeed), o.moveRadius), 2)]

\* C27: after an action that ran a tick, every obstacle is where its original
\* origin, its motion parameters and the clock put it, whatever ticks, frames
\* and stop()/start() pairs came before.
C27_ObstacleAtClock ==
    hist.ticks > 0 =>
        \A i \in 1..Len(phys.obstacles) :
            /\ phys.obstacles[i].x = PlaceAt(phys.obstacles[i], sched.now).x
            /\ phys.obstacles[i].y = PlaceAt(phys.obstacles[i], sched.now).y

\* A tick at a later sample of the clock, run by a start() that followed a
\* stop() (the callback of the earlier chain is still pending), with an obstacle
\* away from its origin.
C27_Witness ==
    /\ hist.ticks > 0
    /\ sched.now > 0
    /\ \E k \in 1..Len(sched.pending) : sched.pending[k].stale
    /\ \E i \in 1..Len(phys.obstacles) :
          phys.obstacles[i].x # phys.obstacles[i].originalX

\* C28: in a display frame (the step that advances the clock) at most one of the
\* pending frame callbacks runs a tick, so the ball is advanced at most once per
\* frame.
C28_OneTickPerFrame ==
    [][sched'.now # sched.now => hist'.ticks <= 1]_vars

\* C29: in every state of a session, which starts with the ball at rest, the
\* ball's speed is at most maxSpeed.
C29_SpeedWithinMax ==
    Speed(ball) <= maxSpeed

\* A tick whose obstacle response left the ball at the rebound speed, 0.8 * maxSpeed
\* (less the rounding of the two components).
C29_Witness ==
    /\ hist.ticks > 0
    /\ hist.obstacleEvents > 0
    /\ Speed(ball) >= Mul(maxSpeed, reboundFactor) - 2
    /\ Speed(ball) <= maxSpeed

\* C30: after every operation of TiltRunnerGame and every event handler the
\* physics engine is running exactly when gameState is 'playing', and the
\* controls are enabled exactly when gameState is 'playing'.
C30_RunningAndEnabledIffPlaying ==
    /\ phys.isRunning <=> game.gameState = "playing"
    /\ ctl.isEnabled <=> game.gameState = "playing"

\* The countdown ran out during play: gameOver() stopped the engine, with a frame
\* callback still pending, and disabled the controls.
C30_Witness ==
    /\ game.gameState = "gameOver"
    /\ sched.pending # <<>>
    /\ ~phys.isRunning
    /\ ~ctl.isEnabled

\* C37: while the controls are disabled no handler of the controls (orientation
\* event, frame of the keyboard loop, key event, calibrate, setSensitivity)
\* changes the engine's gravity or hands a force to applyForces: gravity keeps
\* its value until enable() or a direct call of the engine.
C37_DisabledControlsKeepGravity ==
    [][ (~ctl.isEnabled /\ probe'.op \notin {"enable", "updateGravity"})
            => /\ phys'.gravity = phys.gravity
               /\ probe'.op \notin {"updateKeyboard", "deviceorientation"} ]_vars

\* The controls were disabled after a tilt had set a gravity, and an orientation
\* event has come since.
C37_Witness ==
    /\ ~ctl.isEnabled
    /\ probe.op = "idle"
    /\ ctl.orientation.gamma # 0
    /\ phys.gravity.x # 0

\* C38: in every state in which the controls are disabled all eight key flags
\* are false.
C38_DisabledKeysCleared ==
    ~ctl.isEnabled => \A code \in KeyCodes : ~ctl.keys[code]

\* disable() has just cleared a key that was held.
C38_Witness ==
    /\ probe.op = "disable"
    /\ ~ctl.isEnabled
    /\ phys.gravity # [x |-> 0, y |-> 0]
    /\ ~ctl.isMobile
    /\ \A code \in KeyCodes : ~ctl.keys[code]

\* C31: once gameState is 'victory' or 'gameOver', a step that is not a start
\* or restart of the game (these reset the game: hist.resetLog) leaves gameState
\* as it is and the engine stopped.
C31_EndStatesTerminal ==
    [][ (game.gameState \in {"victory", "gameOver"} /\ hist'.resetLog = <<>>)
            => /\ game'.gameState = game.gameState
               /\ ~phys'.isRunning ]_vars

\* C32: at most one countdown interval is scheduled at any time: no startTimer()
\* has run while an earlier interval was still scheduled (ui.leakedInterval is
\* such an earlier interval, which no handle leads to any more).
C32_OneCountdownInterval ==
    ~ui.leakedInterval

\* C33: while gameState is 'paused' no tick of a countdown interval ends the
\* game: the countdown does not advance, so it cannot run out.
C33_PausedCountdownStands ==
    [][game.gameState = "paused" => game'.gameState # "gameOver"]_vars

\* C34: whenever gameState is 'playing' a countdown interval is scheduled.
C34_PlayingHasCountdown ==
    game.gameState = "playing" => (ui.timerInterval \/ ui.leakedInterval)

\* C35: a resize() of a window whose layout has not changed leaves every
\* obstacle's originalX and originalY as they were before it, after any number of
\* ticks.
C35_ResizeKeepsOrigins ==
    [][ hist'.resized =>
          /\ Len(phys'.obstacles) = Len(phys.obstacles)
          /\ \A i \in 1..Len(phys.obstacles) :
                /\ phys'.obstacles[i].originalX = phys.obstacles[i].originalX
                /\ phys'.obstacles[i].originalY = phys.obstacles[i].originalY ]_vars

\* C36: once the three timers of the latest call transitionToScreen(target)
\* have fired, with no other call in between, the target screen does not carry
\* 'hidden', the screen shown before (when it is another one) carries 'hidden',
\* and currentScreen is the target.
C36_TransitionShowsTarget ==
    (\A i \in 1..Len(ui.timers) : ~ui.timers[i].latest)
        => /\ "hidden" \notin ui.classes[ui.last.target]
           /\ ui.last.previous # ui.last.target
                 => "hidden" \in ui.classes[ui.last.previous]
           /\ ui.currentScreen = ui.last.target

=============================================================================
